---- MODULE Spec2Model ----
(***************************************************************************)
(* Verification model of meeting-transcriber's transcript fusion.          *)
(*                                                                         *)
(* Strings are sequences of one-character strings, so that split, join,    *)
(* trim, the regular-expression replacements of normalize and the          *)
(* character-level String.includes are computed as the code computes them. *)
(* Array indices are 0-based as in the source; Slice and At translate them *)
(* to TLA+ sequences.                                                      *)
(***************************************************************************)
EXTENDS Integers, Sequences, FiniteSets, TLC

VARIABLES
    \* removeMicHallucinations called on its own (and on its own output)
    words, result, refiltered, fpc,
    \* labelWords, phase by phase: isThem, runs, merged and final hold each
    \* array as it is when the loop that builds it ends
    micWords, speakerText, variant, isThem, runs, merged, final, lpc,
    \* mergeTranscripts
    micSegments, speakerSegments, sessionTimestamp, mt, mpc,
    \* the daemon: its module-level state, each session's pipeline, the
    \* shutdown handler's position
    currentSession, shuttingDown, recStatus, exited, started, stage,
    micResult, speakerResult, mergeCalled, shutdownAwaits,
    \* history of the daemon: mic-active events delivered, stopSession calls
    \* per session
    micEvents, stopCalls,
    \* the menu-bar indicator and the two pipes between it and the daemon
    isRecording, stdinPipe, stdoutPipe, clicks,
    \* formatDuration called on its own
    durationSeconds, durationText, dpc,
    \* the marking loop of labelWords, one window at a time
    scanWords, scanText, scanMarks, scanIndex, spc,
    \* a mic detector: its closure variables, the polls awaiting checkMic,
    \* the events emitted so far and how many of them preceded stop()
    wasActive, timer, stopped, pendingPolls, polls, emitted, emittedAtStop,
    \* the two transcribe calls of one session and the temporary directory
    engine, clock, wavPath, outputBase, tmpFiles, tpc, readOutput, unlinked

filterVars == <<words, result, refiltered, fpc>>
labelVars == <<micWords, speakerText, variant, isThem, runs, merged, final, lpc>>
mergeVars == <<micSegments, speakerSegments, sessionTimestamp, mt, mpc>>
daemonVars ==
    <<currentSession, shuttingDown, recStatus, exited, started, stage,
      micResult, speakerResult, mergeCalled, shutdownAwaits,
      micEvents, stopCalls>>
indicatorVars == <<isRecording, stdinPipe, stdoutPipe, clicks>>
processVars == <<daemonVars, indicatorVars>>
durationVars == <<durationSeconds, durationText, dpc>>
scanVars == <<scanWords, scanText, scanMarks, scanIndex, spc>>
detectorVars ==
    <<wasActive, timer, stopped, pendingPolls, polls, emitted, emittedAtStop>>
transcribeVars ==
    <<engine, clock, wavPath, outputBase, tmpFiles, tpc, readOutput, unlinked>>
vars ==
    <<filterVars, labelVars, mergeVars, processVars, durationVars,
      scanVars, detectorVars, transcribeVars>>

----------------------------------------------------------------------------
(* JavaScript string and array primitives                                  *)

Min(a, b) == IF a <= b THEN a ELSE b
Max(a, b) == IF a >= b THEN a ELSE b

\* Array.prototype.slice(a, b) / String.prototype.slice(a, b), 0 <= a
Slice(s, a, b) == SubSeq(s, a + 1, Min(b, Len(s)))

\* Array.prototype.slice(-n)
SliceLast(s, n) == SubSeq(s, Max(1, Len(s) - n + 1), Len(s))

RECURSIVE Join(_, _)
\* Array.prototype.join(sep)
Join(ws, sep) ==
    IF Len(ws) = 0 THEN <<>>
    ELSE IF Len(ws) = 1 THEN ws[1]
    ELSE LET h == Len(ws) \div 2 IN
         Join(SubSeq(ws, 1, h), sep) \o sep \o Join(SubSeq(ws, h + 1, Len(ws)), sep)

SP == <<" ">>

IsSpace(c) == c = " "

\* the positions 1..Len(s) of s, in order
Positions(s) == [k \in 1..Len(s) |-> k]

\* String.prototype.split(" "): "" gives [""], "a  b" gives ["a","","b"]
SplitSpace(s) ==
    LET AtSpace(k) == IsSpace(s[k])
        sp == SelectSeq(Positions(s), AtSpace)
        n == Len(sp) + 1
    IN  [i \in 1..n |->
            SubSeq(s, IF i = 1 THEN 1 ELSE sp[i - 1] + 1,
                      IF i = n THEN Len(s) ELSE sp[i] - 1)]

\* String.prototype.replace(/\s+/g, " ")
CollapseWs(s) ==
    LET StartsRun(k) == ~(IsSpace(s[k]) /\ k > 1 /\ IsSpace(s[k - 1]))
        kept == SelectSeq(Positions(s), StartsRun)
    IN  [i \in 1..Len(kept) |-> s[kept[i]]]

\* String.prototype.split(/\s+/)
SplitWs(s) == SplitSpace(CollapseWs(s))

\* String.prototype.trim()
Trim(s) ==
    LET Inked(k) == ~IsSpace(s[k])
        ink == SelectSeq(Positions(s), Inked)
    IN  IF Len(ink) = 0 THEN <<>> ELSE SubSeq(s, ink[1], ink[Len(ink)])

\* String.prototype.includes(needle)
Includes(hay, needle) ==
    \E k \in 0..(Len(hay) - Len(needle)) : SubSeq(hay, k + 1, k + Len(needle)) = needle

\* the 0-based positions at which needle occurs in hay
Occurrences(hay, needle) ==
    {k \in 0..(Len(hay) - Len(needle)) : SubSeq(hay, k + 1, k + Len(needle)) = needle}

SetMax(S) == CHOOSE x \in S : \A y \in S : y <= x
SetMin(S) == CHOOSE x \in S : \A y \in S : x <= y

\* String.prototype.lastIndexOf(needle)
LastIndexOf(hay, needle) ==
    LET occ == Occurrences(hay, needle) IN
    IF occ = {} THEN -1 ELSE SetMax(occ)

\* String.prototype.indexOf(needle, from)
IndexOfFrom(hay, needle, from) ==
    LET occ == {k \in Occurrences(hay, needle) : k >= from} IN
    IF occ = {} THEN -1 ELSE SetMin(occ)

\* concatenation of a sequence of sequences
Flatten(ss) == Join(ss, <<>>)

\* the sequences over S of length at most n
SeqUpTo(S, n) == UNION {[1..k -> S] : k \in 0..n}

\* a one-character word
W(c) == <<c>>

----------------------------------------------------------------------------
(* removeMicHallucinations                                                 *)

NGRAM == 8
MIN_REPEATS == 3
WINDOW == 120

RECURSIVE ScanRepeats_adjacentOnly(_, _, _, _, _)
\* the inner loop ending at the first position that does not match
ScanRepeats_adjacentOnly(ws, candidate, i, j, count) ==
    IF j + NGRAM <= Min(i + WINDOW, Len(ws))
    THEN IF Join(Slice(ws, j, j + NGRAM), SP) = candidate
         THEN ScanRepeats_adjacentOnly(ws, candidate, i, j + NGRAM, count + 1)
         ELSE [count |-> count, j |-> j]
    ELSE [count |-> count, j |-> j]

RECURSIVE ScanRepeats(_, _, _, _, _)
\* the inner while loop: count and j when it ends
ScanRepeats(ws, candidate, i, j, count) ==
    IF j + NGRAM <= Min(i + WINDOW, Len(ws))
    THEN IF Join(Slice(ws, j, j + NGRAM), SP) = candidate
         THEN ScanRepeats(ws, candidate, i, j + NGRAM, count + 1)
         ELSE ScanRepeats(ws, candidate, i, j + 1, count)
    ELSE [count |-> count, j |-> j]

RECURSIVE FilterFrom_noTail(_, _, _)
\* the outer loop ending where fewer than NGRAM tokens remain
FilterFrom_noTail(ws, i, kept) ==
    IF i + NGRAM <= Len(ws)
    THEN LET candidate == Join(Slice(ws, i, i + NGRAM), SP)
             scan == ScanRepeats(ws, candidate, i, i + NGRAM, 1)
         IN  IF scan.count >= MIN_REPEATS
             THEN FilterFrom_noTail(ws, scan.j, kept)
             ELSE FilterFrom_noTail(ws, i + 1, Append(kept, ws[i + 1]))
    ELSE kept

RECURSIVE FilterFrom(_, _, _)
\* the outer while loop from position i with the tokens kept so far
FilterFrom(ws, i, kept) ==
    IF i < Len(ws)
    THEN IF i + NGRAM <= Len(ws)
         THEN LET candidate == Join(Slice(ws, i, i + NGRAM), SP)
                  scan == ScanRepeats(ws, candidate, i, i + NGRAM, 1)
              IN  IF scan.count >= MIN_REPEATS
                  THEN FilterFrom(ws, scan.j, kept)
                  ELSE FilterFrom(ws, i + 1, Append(kept, ws[i + 1]))
         ELSE FilterFrom(ws, i + 1, Append(kept, ws[i + 1]))
    ELSE kept

\* the scan starting at the second token
removeMicHallucinations_fromSecond(ws) == FilterFrom(ws, 1, <<>>)

removeMicHallucinations(ws) == FilterFrom(ws, 0, <<>>)

----------------------------------------------------------------------------
(* Inputs of the hallucination filter: ordinary speech, a looping phrase,  *)
(* trailing speech.                                                        *)

PhraseP == <<W("a"), W("b"), W("c"), W("d"), W("e"), W("f"), W("g"), W("h")>>
PhraseQ == <<W("i"), W("j"), W("k"), W("l"), W("m"), W("n"), W("o"), W("p")>>
PhraseS == <<W("q"), W("r"), W("s"), W("t"), W("u"), W("v")>>
HeadP == SubSeq(PhraseP, 1, 1)
TailP == SubSeq(PhraseP, 2, 8)

MaxPre == 3
MaxReps == 5
MaxPost == 2

PreBlocks == {PhraseP, HeadP}
LoopPhrases == {PhraseP, PhraseQ, PhraseS}
PostBlocks == {PhraseP, HeadP, TailP}

RECURSIVE Repeat(_, _)
Repeat(phrase, n) == IF n = 0 THEN <<>> ELSE phrase \o Repeat(phrase, n - 1)

FilterInputs ==
    { Flatten(pre) \o Repeat(ph, n) \o Flatten(post) :
        pre \in SeqUpTo(PreBlocks, MaxPre),
        ph \in LoopPhrases,
        n \in 0..MaxReps,
        post \in SeqUpTo(PostBlocks, MaxPost) }

----------------------------------------------------------------------------
(* labelWords: window marking, grouping, gap absorption, final merge       *)

RUN_LENGTH == 5
MIN_GAP_WORDS == 7

\* a Run of the source; text is the space-joined tokens
Run(speaker, text) == [speaker |-> speaker, text |-> text]

\* what indexing an array outside its bounds yields
UndefinedRun == [speaker |-> "undefined", text |-> <<>>]

\* arr[i] with a 0-based index
At(arr, i) == IF 0 <= i /\ i < Len(arr) THEN arr[i + 1] ELSE UndefinedRun

\* the inner marking loop stopping one token early
MarkWindow_short(mw, st, marks, i) ==
    LET run == Join(Slice(mw, i, i + RUN_LENGTH), SP) IN
    IF Includes(st, run)
    THEN [k \in 1..Len(mw) |-> IF i < k /\ k < i + RUN_LENGTH THEN TRUE ELSE marks[k]]
    ELSE marks

\* body of the marking loop for window start i
MarkWindow(mw, st, marks, i) ==
    LET run == Join(Slice(mw, i, i + RUN_LENGTH), SP) IN
    IF Includes(st, run)
    THEN [k \in 1..Len(mw) |-> IF i < k /\ k <= i + RUN_LENGTH THEN TRUE ELSE marks[k]]
    ELSE marks

RECURSIVE MarkFrom(_, _, _, _)
MarkFrom(mw, st, marks, i) ==
    IF i <= Len(mw) - RUN_LENGTH
    THEN MarkFrom(mw, st, MarkWindow(mw, st, marks, i), i + 1)
    ELSE marks

\* the isThem array after the marking loop
markThem(mw, st) == MarkFrom(mw, st, [k \in 1..Len(mw) |-> FALSE], 0)

\* isThem[i] with a 0-based index; undefined is falsy
MarkAt(marks, i) == IF i < Len(marks) THEN marks[i + 1] ELSE FALSE

SpeakerOf(mark) == IF mark THEN "Them" ELSE "You"

PushRun(rs, speaker, ws) ==
    IF Len(ws) > 0 THEN Append(rs, Run(speaker, Join(ws, SP))) ELSE rs

RECURSIVE GroupFrom(_, _, _, _, _, _)
GroupFrom(mw, marks, i, currentSpeaker, currentWords, rs) ==
    IF i < Len(mw)
    THEN LET speaker == SpeakerOf(MarkAt(marks, i)) IN
         IF speaker # currentSpeaker
         THEN GroupFrom(mw, marks, i + 1, speaker, <<mw[i + 1]>>,
                        PushRun(rs, currentSpeaker, currentWords))
         ELSE GroupFrom(mw, marks, i + 1, currentSpeaker,
                        Append(currentWords, mw[i + 1]), rs)
    ELSE PushRun(rs, currentSpeaker, currentWords)

\* the runs array after the grouping loop
groupRuns(mw, marks) ==
    GroupFrom(mw, marks, 0, SpeakerOf(MarkAt(marks, 0)), <<>>, <<>>)

\* the append without its separating space
AppendToLast_noSpace(mg, text) == [mg EXCEPT ![Len(mg)].text = @ \o text]

\* prev.text += " " + curr.text on the last run of mg
AppendToLast(mg, text) == [mg EXCEPT ![Len(mg)].text = @ \o SP \o text]

NonEmpty(w) == Len(w) > 0

\* the test without its look at the following run
Sandwiched_noNext(prev, curr, next) ==
    curr.speaker = "You" /\ prev.speaker = "Them"

\* a You run between the last run of mg and a following Them run
Sandwiched(prev, curr, next) ==
    /\ next # UndefinedRun
    /\ curr.speaker = "You" /\ prev.speaker = "Them" /\ next.speaker = "Them"

\* the word-count test with < in place of <=
ShortGap_strict(curr) ==
    LET youWordCount == Len(SelectSeq(SplitSpace(curr.text), NonEmpty)) IN
    youWordCount < MIN_GAP_WORDS

\* the word-count test of the unconditional absorber
ShortGap(curr) ==
    LET youWordCount == Len(SelectSeq(SplitSpace(curr.text), NonEmpty)) IN
    youWordCount <= MIN_GAP_WORDS

RECURSIVE AbsorbFrom(_, _, _)
AbsorbFrom(rs, i, mg) ==
    IF i < Len(rs)
    THEN LET prev == mg[Len(mg)]
             curr == At(rs, i)
             next == At(rs, i + 1)
         IN  IF Sandwiched(prev, curr, next)
             THEN IF ShortGap(curr)
                  THEN AbsorbFrom(rs, i + 1, AppendToLast(mg, curr.text))
                  ELSE AbsorbFrom(rs, i + 1, Append(mg, curr))
             ELSE AbsorbFrom(rs, i + 1, Append(mg, curr))
    ELSE mg

\* the merged array of the MIN_GAP_WORDS absorber.  Its run objects are
\* shared with runs, so the append also changes runs, which is not read
\* after this loop.
absorbGaps(rs) == AbsorbFrom(rs, 1, <<At(rs, 0)>>)

\* the anchor test with nextHead searched from the start of the text
AnchorsClose_fromStart(st, prev, next) ==
    LET prevTail == Join(SliceLast(SplitSpace(prev.text), 3), SP)
        nextHead == Join(Slice(SplitSpace(next.text), 0, 3), SP)
        prevPos == LastIndexOf(st, prevTail)
        nextPos == IF prevPos # -1 THEN IndexOfFrom(st, nextHead, 0) ELSE -1
    IN  prevPos # -1 /\ nextPos # -1 /\ nextPos - prevPos < Len(prevTail) + 30

\* the anchor test of the earlier absorber: the last three tokens of prev
\* and the first three of next lie close together in the speaker text
AnchorsClose(st, prev, next) ==
    LET prevTail == Join(SliceLast(SplitSpace(prev.text), 3), SP)
        nextHead == Join(Slice(SplitSpace(next.text), 0, 3), SP)
        prevPos == LastIndexOf(st, prevTail)
        nextPos == IF prevPos # -1 THEN IndexOfFrom(st, nextHead, prevPos) ELSE -1
    IN  prevPos # -1 /\ nextPos # -1 /\ nextPos - prevPos < Len(prevTail) + 30

RECURSIVE AbsorbAnchoredFrom(_, _, _, _)
AbsorbAnchoredFrom(rs, st, i, mg) ==
    IF i < Len(rs)
    THEN LET prev == mg[Len(mg)]
             curr == At(rs, i)
             next == At(rs, i + 1)
         IN  IF Sandwiched(prev, curr, next)
             THEN IF AnchorsClose(st, prev, next)
                  THEN AbsorbAnchoredFrom(rs, st, i + 1, AppendToLast(mg, curr.text))
                  ELSE AbsorbAnchoredFrom(rs, st, i + 1, Append(mg, curr))
             ELSE AbsorbAnchoredFrom(rs, st, i + 1, Append(mg, curr))
    ELSE mg

\* the merged array of the anchor-based absorber
absorbAnchored(rs, st) == AbsorbAnchoredFrom(rs, st, 1, <<At(rs, 0)>>)

RECURSIVE MergeFrom(_, _, _)
MergeFrom(mg, i, fin) ==
    IF i < Len(mg)
    THEN LET prev == fin[Len(fin)] IN
         IF At(mg, i).speaker = prev.speaker
         THEN MergeFrom(mg, i + 1, AppendToLast(fin, At(mg, i).text))
         ELSE MergeFrom(mg, i + 1, Append(fin, At(mg, i)))
    ELSE fin

\* the final pass left out
mergeSameSpeaker_skipped(mg) == mg

\* the final array: consecutive same-speaker runs merged.  Its run objects
\* are shared with merged, which is not read after this loop.
mergeSameSpeaker(mg) == MergeFrom(mg, 1, <<At(mg, 0)>>)

\* labelWords without its guard for the empty token list
ReturnsEarly_never(mw) == FALSE

\* if (micWords.length === 0) return []
ReturnsEarly(mw) == Len(mw) = 0

\* labelWords with the MIN_GAP_WORDS absorber
labelWords(mw, st) ==
    IF ReturnsEarly(mw) THEN <<>>
    ELSE mergeSameSpeaker(absorbGaps(groupRuns(mw, markThem(mw, st))))

\* labelWords with the anchor-based absorber
labelWordsAnchored(mw, st) ==
    IF ReturnsEarly(mw) THEN <<>>
    ELSE mergeSameSpeaker(absorbAnchored(groupRuns(mw, markThem(mw, st)), st))

----------------------------------------------------------------------------
(* Inputs of labelWords: the primary tokens are pieces of what the other   *)
(* party said (bleed) and pieces of the local speaker's own words.         *)

RefA == <<W("a"), W("b"), W("c"), W("d"), W("e")>>
RefB == <<W("f"), W("g"), W("h"), W("i"), W("j")>>
Own3 == <<W("x"), W("y"), W("z")>>
Own4 == <<W("s"), W("t"), W("u"), W("v")>>

MaxChunks == 6

Chunks == {RefA, RefB, Own3, Own4}

LabelInputs == {Flatten(cs) : cs \in SeqUpTo(Chunks, MaxChunks)}

SpeakerTexts == {Join(RefA \o RefB, SP), Join(RefA, SP)}

Variants == {"gap", "anchor"}

\* yes i agree with that plan lets go, against "i agree with that plan"
ExampleTokens ==
    << <<"y", "e", "s">>, <<"i">>, <<"a", "g", "r", "e", "e">>,
       <<"w", "i", "t", "h">>, <<"t", "h", "a", "t">>, <<"p", "l", "a", "n">>,
       <<"l", "e", "t", "s">>, <<"g", "o">> >>
ExampleReference == Join(SubSeq(ExampleTokens, 2, 6), SP)

\* a b c d e and s t a b c d e x, against the reference tokens za b c d ef:
\* the first and last reference tokens only end and start with a and e
EdgeReference == Join(<< <<"z", "a">>, W("b"), W("c"), W("d"), <<"e", "f">> >>, SP)

LabelCases ==
    { [tokens |-> ExampleTokens, reference |-> ExampleReference],
      [tokens |-> RefA, reference |-> EdgeReference],
      [tokens |-> <<W("s"), W("t")>> \o RefA \o <<W("x")>>, reference |-> EdgeReference] }

----------------------------------------------------------------------------
(* normalize, isSpeakerDead, formatDuration, mergeTranscripts              *)

LowerLetters ==
    {"a", "b", "c", "d", "e", "f", "g", "h", "i", "j", "k", "l", "m",
     "n", "o", "p", "q", "r", "s", "t", "u", "v", "w", "x", "y", "z"}

\* the upper-case letters that occur in the inputs, with their lower case
UpperToLower ==
    ("A" :> "a") @@ ("B" :> "b") @@ ("H" :> "h") @@ ("M" :> "m") @@
    ("T" :> "t") @@ ("U" :> "u")

Digits == <<"0", "1", "2", "3", "4", "5", "6", "7", "8", "9">>

IsDigit(c) == \E d \in 1..10 : Digits[d] = c

\* the class \w
IsWordChar(c) ==
    c \in LowerLetters \/ c \in DOMAIN UpperToLower \/ IsDigit(c) \/ c = "_"

\* String.prototype.toLowerCase()
toLowerCase(s) ==
    [k \in 1..Len(s) |-> IF s[k] \in DOMAIN UpperToLower THEN UpperToLower[s[k]] ELSE s[k]]

\* replace(/-/g, " ")
HyphensToSpaces(s) == [k \in 1..Len(s) |-> IF s[k] = "-" THEN " " ELSE s[k]]

KeepsChar(c) == IsWordChar(c) \/ IsSpace(c)

\* replace(/[^\w\s]/g, "")
StripPunctuation(s) == SelectSeq(s, KeepsChar)

FILLERS == {<<"u", "h">>, <<"u", "m">>}

KeepsWord(w) == Len(w) > 0 /\ w \notin FILLERS

normalize(text) ==
    Join(SelectSeq(SplitSpace(Trim(CollapseWs(StripPunctuation(
            HyphensToSpaces(toLowerCase(text)))))), KeepsWord), SP)

\* the zero-segment check off by one
isSpeakerDead_offByOne(segments) == Len(segments) = 1

isSpeakerDead(segments) == Len(segments) = 0

RECURSIVE DecStr(_)
\* a non-negative integer in decimal, as a template literal renders it
DecStr(n) ==
    IF n < 10 THEN <<Digits[n + 1]>>
    ELSE DecStr(n \div 10) \o <<Digits[(n % 10) + 1]>>

\* the minutes part dropped up to and including one full minute
formatDuration_offByOne(seconds) ==
    LET m == seconds \div 60
        s == seconds % 60
    IN  IF seconds <= 60 THEN DecStr(seconds) \o <<"s">>
        ELSE DecStr(m) \o <<"m", " ">> \o DecStr(s) \o <<"s">>

\* the duration is a whole number of seconds in this model
formatDuration(seconds) ==
    LET m == seconds \div 60
        s == seconds % 60
    IN  IF m = 0 THEN DecStr(s) \o <<"s">>
        ELSE DecStr(m) \o <<"m", " ">> \o DecStr(s) \o <<"s">>

\* replace("T", " "): the first occurrence only
ReplaceFirstT(ts) ==
    LET occ == Occurrences(ts, <<"T">>) IN
    IF occ = {} THEN ts
    ELSE [k \in 1..Len(ts) |-> IF k = SetMin(occ) + 1 THEN " " ELSE ts[k]]

\* replace(/-(\d{2})-(\d{2})$/, ":$1")
ReplaceTail(s) ==
    LET n == Len(s) IN
    IF /\ n >= 6
       /\ s[n - 5] = "-" /\ IsDigit(s[n - 4]) /\ IsDigit(s[n - 3])
       /\ s[n - 2] = "-" /\ IsDigit(s[n - 1]) /\ IsDigit(s[n])
    THEN SubSeq(s, 1, n - 6) \o <<":", s[n - 4], s[n - 3]>>
    ELSE s

displayDate(ts) == ReplaceTail(ReplaceFirstT(ts))

SegmentTexts(segments) == [k \in 1..Len(segments) |-> segments[k].text]

\* a piece of the document after the title line
Piece(kind, speaker, text) == [kind |-> kind, speaker |-> speaker, text |-> text]

RECURSIVE RemapFrom(_, _, _, _, _)
\* runs.map(...) with the running wordIndex
RemapFrom(rs, k, wordIndex, mw, out) ==
    IF k < Len(rs)
    THEN LET run == At(rs, k)
             count == Len(SplitSpace(run.text))
             original == Join(Slice(mw, wordIndex, wordIndex + count), SP)
         IN  RemapFrom(rs, k + 1, wordIndex + count, mw,
                       Append(out, Run(run.speaker, original)))
    ELSE out

RenderRuns(labeledRuns) ==
    [k \in 1..Len(labeledRuns) |->
        Piece("labeled", labeledRuns[k].speaker, labeledRuns[k].text)]

\* the locals of one call of mergeTranscripts and the document it writes;
\* threw: run.text was read on an undefined run, nothing is written
mergeTranscripts(micSegs, spkSegs, ts) ==
    LET speakerDead == isSpeakerDead(spkSegs)
        micText == Trim(Join(SegmentTexts(micSegs), SP))
        mw == removeMicHallucinations(SplitWs(micText))
        duration == IF Len(micSegs) > 0 THEN micSegs[Len(micSegs)].end ELSE 0
        title == [date |-> displayDate(ts), duration |-> formatDuration(duration)]
    IN  IF speakerDead
        THEN [micWords |-> mw, normalizedMicWords |-> <<>>, speakerText |-> <<>>,
              runs |-> <<>>, labelRan |-> FALSE, threw |-> FALSE,
              md |-> [title |-> title,
                      body |-> <<Piece("note", "", <<>>),
                                 Piece("raw", "", Join(mw, SP))>>]]
        ELSE LET nmw == SplitSpace(normalize(Join(mw, SP)))
                 st == normalize(Join(SegmentTexts(spkSegs), SP))
                 rs == labelWords(nmw, st)
                 threw == \E k \in 1..Len(rs) : rs[k] = UndefinedRun
             IN  [micWords |-> mw, normalizedMicWords |-> nmw, speakerText |-> st,
                  runs |-> rs, labelRan |-> TRUE, threw |-> threw,
                  md |-> IF threw THEN [title |-> title, body |-> <<>>]
                         ELSE [title |-> title,
                               body |-> RenderRuns(RemapFrom(rs, 0, 0, mw, <<>>))]]

----------------------------------------------------------------------------
(* Inputs of mergeTranscripts: segments whose text is raw recognizer       *)
(* output: capitals, punctuation, fillers, hyphens, a looping phrase.      *)

MicBleed == <<" ", "A", " ", "b", ",", " ", "c", " ", "d", " ", "e">>
MicFiller == <<"U", "h", ",", " ", "x">>
MicHyphen == <<"y", "-", "z">>
MicDashes == <<"-", "-", " ", "w">>
MicPlain == <<"s", " ", "t">>
MicLoop == Join(PhraseP \o PhraseP \o PhraseP, SP)
EmptyText == <<>>

MicTexts == {MicBleed, MicFiller, MicHyphen, MicDashes, MicPlain, MicLoop, EmptyText}

SpkSpeech == <<" ", "A", " ", "b", " ", "c", " ", "d", " ", "e", ".">>

SpkTexts == {SpkSpeech, EmptyText}

MaxMicSegs == 3
MaxSpkSegs == 1
SegSeconds == 25

\* chronological segments of SegSeconds seconds each
Segments(texts) ==
    [k \in 1..Len(texts) |->
        [start |-> (k - 1) * SegSeconds, end |-> k * SegSeconds, text |-> texts[k]]]

MicSegmentLists == {Segments(ts) : ts \in SeqUpTo(MicTexts, MaxMicSegs)}
SpkSegmentLists == {Segments(ts) : ts \in SeqUpTo(SpkTexts, MaxSpkSegs)}

\* 2026-02-13T19-25-11 and 2026-02-13T09-05-59
Timestamps ==
    { <<"2", "0", "2", "6", "-", "0", "2", "-", "1", "3", "T",
        "1", "9", "-", "2", "5", "-", "1", "1">>,
      <<"2", "0", "2", "6", "-", "0", "2", "-", "1", "3", "T",
        "0", "9", "-", "0", "5", "-", "5", "9">> }

----------------------------------------------------------------------------
(* Inputs of the hallucination filter that reach past its lookahead        *)

\* n different words: w1 w2 ... wn
DistinctWords(n) == [k \in 1..n |-> <<"w">> \o DecStr(k)]

\* a phrase, ordinary speech, then the phrase twice more: the last copy
\* ends exactly at the end of the first copy's lookahead, or one token later
WindowInputs ==
    { PhraseP \o DistinctWords(n) \o PhraseP \o PhraseP :
        n \in {WINDOW - 3 * NGRAM, WINDOW - 3 * NGRAM + 1} }

\* a b c d e x y z f g h i j against a reference in which other words
\* stand between a b c d e and f g h i j: few enough for the two anchors to
\* count as close, or one word more
FarCases ==
    { [tokens |-> RefA \o Own3 \o RefB,
       reference |-> Join(RefA \o DistinctWords(n) \o RefB, SP)] : n \in {9, 10} }

----------------------------------------------------------------------------
(* Idle values of the groups of variables                                  *)

FilterIdle ==
    /\ words = <<>> /\ result = <<>> /\ refiltered = <<>> /\ fpc = "idle"

LabelIdle ==
    /\ micWords = <<>> /\ speakerText = <<>> /\ variant = "gap"
    /\ isThem = <<>> /\ runs = <<>> /\ merged = <<>> /\ final = <<>>
    /\ lpc = "idle"

MergeIdle ==
    /\ micSegments = <<>> /\ speakerSegments = <<>> /\ sessionTimestamp = <<>>
    /\ mt = <<>> /\ mpc = "idle"

ProcessIdle ==
    /\ currentSession = 0 /\ shuttingDown = FALSE /\ recStatus = "null"
    /\ exited = FALSE /\ started = 0 /\ stage = <<>>
    /\ micResult = <<>> /\ speakerResult = <<>> /\ mergeCalled = <<>>
    /\ shutdownAwaits = 0 /\ micEvents = 0 /\ stopCalls = <<>>
    /\ isRecording = FALSE /\ stdinPipe = <<>> /\ stdoutPipe = <<>> /\ clicks = 0

DurationIdle ==
    /\ durationSeconds = 0 /\ durationText = <<>> /\ dpc = "idle"

ScanIdle ==
    /\ scanWords = <<>> /\ scanText = <<>> /\ scanMarks = <<>>
    /\ scanIndex = 0 /\ spc = "idle"

DetectorIdle ==
    /\ wasActive = FALSE /\ timer = "null" /\ stopped = FALSE
    /\ pendingPolls = 0 /\ polls = 0 /\ emitted = <<>> /\ emittedAtStop = -1

TranscribeIdle ==
    /\ engine = "none" /\ clock = 0 /\ wavPath = <<>> /\ outputBase = <<>>
    /\ tmpFiles = {} /\ tpc = <<>> /\ readOutput = <<>> /\ unlinked = <<>>

----------------------------------------------------------------------------
(* The filter applied to a token list, then to its own output              *)

InitFilter ==
    /\ words \in FilterInputs \cup WindowInputs
    /\ result = <<>> /\ refiltered = <<>> /\ fpc = "start"
    /\ LabelIdle /\ MergeIdle /\ ProcessIdle /\ DurationIdle
    /\ ScanIdle /\ DetectorIdle /\ TranscribeIdle

RemoveMicHallucinations ==
    /\ fpc = "start"
    /\ result' = removeMicHallucinations(words)
    /\ fpc' = "filtered"
    /\ UNCHANGED <<words, refiltered, labelVars, mergeVars,
                   processVars, durationVars,
                   scanVars, detectorVars, transcribeVars>>

RemoveMicHallucinationsAgain ==
    /\ fpc = "filtered"
    /\ refiltered' = removeMicHallucinations(result)
    /\ fpc' = "refiltered"
    /\ UNCHANGED <<words, result, labelVars, mergeVars,
                   processVars, durationVars,
                   scanVars, detectorVars, transcribeVars>>

NextFilter == RemoveMicHallucinations \/ RemoveMicHallucinationsAgain

SpecFilter == InitFilter /\ [][NextFilter]_vars

----------------------------------------------------------------------------
(* labelWords, one phase at a time                                         *)

InitLabel ==
    /\ \/ micWords \in LabelInputs /\ speakerText \in SpeakerTexts
       \/ \E c \in LabelCases \cup FarCases : micWords = c.tokens /\ speakerText = c.reference
    /\ variant \in Variants
    /\ isThem = <<>> /\ runs = <<>> /\ merged = <<>> /\ final = <<>>
    /\ lpc = "start"
    /\ FilterIdle /\ MergeIdle /\ ProcessIdle /\ DurationIdle
    /\ ScanIdle /\ DetectorIdle /\ TranscribeIdle

ReturnEmpty ==
    /\ lpc = "start" /\ ReturnsEarly(micWords)
    /\ final' = <<>>
    /\ lpc' = "returned"
    /\ UNCHANGED <<micWords, speakerText, variant, isThem, runs, merged,
                   filterVars, mergeVars,
                   processVars, durationVars,
                   scanVars, detectorVars, transcribeVars>>

Mark ==
    /\ lpc = "start" /\ ~ReturnsEarly(micWords)
    /\ isThem' = markThem(micWords, speakerText)
    /\ lpc' = "marked"
    /\ UNCHANGED <<micWords, speakerText, variant, runs, merged, final,
                   filterVars, mergeVars,
                   processVars, durationVars,
                   scanVars, detectorVars, transcribeVars>>

Group ==
    /\ lpc = "marked"
    /\ runs' = groupRuns(micWords, isThem)
    /\ lpc' = "grouped"
    /\ UNCHANGED <<micWords, speakerText, variant, isThem, merged, final,
                   filterVars, mergeVars,
                   processVars, durationVars,
                   scanVars, detectorVars, transcribeVars>>

AbsorbGaps ==
    /\ lpc = "grouped" /\ variant = "gap"
    /\ merged' = absorbGaps(runs)
    /\ lpc' = "absorbed"
    /\ UNCHANGED <<micWords, speakerText, variant, isThem, runs, final,
                   filterVars, mergeVars,
                   processVars, durationVars,
                   scanVars, detectorVars, transcribeVars>>

AbsorbAnchored ==
    /\ lpc = "grouped" /\ variant = "anchor"
    /\ merged' = absorbAnchored(runs, speakerText)
    /\ lpc' = "absorbed"
    /\ UNCHANGED <<micWords, speakerText, variant, isThem, runs, final,
                   filterVars, mergeVars,
                   processVars, durationVars,
                   scanVars, detectorVars, transcribeVars>>

MergeSameSpeaker ==
    /\ lpc = "absorbed"
    /\ final' = mergeSameSpeaker(merged)
    /\ lpc' = "returned"
    /\ UNCHANGED <<micWords, speakerText, variant, isThem, runs, merged,
                   filterVars, mergeVars,
                   processVars, durationVars,
                   scanVars, detectorVars, transcribeVars>>

NextLabel ==
    \/ ReturnEmpty \/ Mark \/ Group \/ AbsorbGaps \/ AbsorbAnchored
    \/ MergeSameSpeaker

SpecLabel == InitLabel /\ [][NextLabel]_vars

----------------------------------------------------------------------------
(* mergeTranscripts called once on a session's two segment lists           *)

InitMerge ==
    /\ micSegments \in MicSegmentLists
    /\ speakerSegments \in SpkSegmentLists
    /\ sessionTimestamp \in Timestamps
    /\ mt = <<>> /\ mpc = "start"
    /\ FilterIdle /\ LabelIdle /\ ProcessIdle /\ DurationIdle
    /\ ScanIdle /\ DetectorIdle /\ TranscribeIdle

MergeTranscripts ==
    /\ mpc = "start"
    /\ mt' = mergeTranscripts(micSegments, speakerSegments, sessionTimestamp)
    /\ mpc' = IF mt'.threw THEN "threw" ELSE "written"
    /\ UNCHANGED <<micSegments, speakerSegments, sessionTimestamp,
                   filterVars, labelVars,
                   processVars, durationVars,
                   scanVars, detectorVars, transcribeVars>>

NextMerge == MergeTranscripts

SpecMerge == InitMerge /\ [][NextMerge]_vars

----------------------------------------------------------------------------
(* All three entry points side by side, on small inputs that include the   *)
(* empty string, the empty token list and the empty segment lists          *)

LoopOfP == PhraseP \o PhraseP \o PhraseP

TotalFilterInputs == {<<>>, LoopOfP \o HeadP}
TotalLabelInputs == {<<>>, RefA \o Own3 \o RefB, Own4}
TotalSpeakerTexts == {<<>>, Join(RefA \o RefB, SP)}
TotalMicSegmentLists == {<<>>, Segments(<<EmptyText>>), Segments(<<MicBleed, MicPlain>>)}
TotalSpkSegmentLists == {<<>>, Segments(<<EmptyText>>), Segments(<<SpkSpeech>>)}

InitTotal ==
    /\ words \in TotalFilterInputs
    /\ result = <<>> /\ refiltered = <<>> /\ fpc = "start"
    /\ micWords \in TotalLabelInputs
    /\ speakerText \in TotalSpeakerTexts
    /\ variant \in Variants
    /\ isThem = <<>> /\ runs = <<>> /\ merged = <<>> /\ final = <<>>
    /\ lpc = "start"
    /\ micSegments \in TotalMicSegmentLists
    /\ speakerSegments \in TotalSpkSegmentLists
    /\ sessionTimestamp \in Timestamps
    /\ mt = <<>> /\ mpc = "start"
    /\ ProcessIdle /\ DurationIdle
    /\ ScanIdle /\ DetectorIdle /\ TranscribeIdle

NextTotal == NextFilter \/ NextLabel \/ NextMerge

SpecTotal == InitTotal /\ [][NextTotal]_vars

----------------------------------------------------------------------------
(* The daemon (index.ts) and its menu-bar indicator (rec-status.swift).    *)
(* Sessions are numbered 1, 2, ... in the order they start; 0 stands for   *)
(* null.  A handler runs to its first await in one step, and the           *)
(* continuation of an await that is already settled runs in the same step, *)
(* as the microtask queue drains before the next event is taken.           *)

MaxSessions == 2
MaxClicks == 3
MaxMicEvents == 3

Sessions == 1..MaxSessions

\* Promise.allSettled of two promises
PromiseAll_settled(a, b) ==
    IF a = "pending" \/ b = "pending" THEN "pending" ELSE "fulfilled"

\* Promise.all of two promises
PromiseAll(a, b) ==
    IF a = "rejected" \/ b = "rejected" THEN "rejected"
    ELSE IF a = "fulfilled" /\ b = "fulfilled" THEN "fulfilled"
    ELSE "pending"

\* sendRecStatus: a line written to the indicator's stdin
sendRecStatus(pipe, command) ==
    IF recStatus = "null" THEN pipe ELSE Append(pipe, command)

\* finishRecording clearing currentSession only after stopSession returned
FinishRecording_lateClear ==
    IF currentSession = 0
    THEN UNCHANGED <<currentSession, stdinPipe, stage, stopCalls>>
    ELSE /\ UNCHANGED currentSession
         /\ stdinPipe' = sendRecStatus(stdinPipe, "idle")
         /\ stage' = [stage EXCEPT ![currentSession] = "stopping"]
         /\ stopCalls' = [stopCalls EXCEPT ![currentSession] = @ + 1]

\* finishRecording up to its await: the session is detached and stopSession
\* runs until it awaits the two recorders
FinishRecording ==
    IF currentSession = 0
    THEN UNCHANGED <<currentSession, stdinPipe, stage, stopCalls>>
    ELSE /\ currentSession' = 0
         /\ stdinPipe' = sendRecStatus(stdinPipe, "idle")
         /\ stage' = [stage EXCEPT ![currentSession] = "stopping"]
         /\ stopCalls' = [stopCalls EXCEPT ![currentSession] = @ + 1]

\* stopSession returns for session s with the given outcome; a shutdown
\* that awaits it goes on to killRecStatus and process.exit
StopSessionReturns(s, outcome) ==
    /\ stage' = [stage EXCEPT ![s] = outcome]
    /\ IF shutdownAwaits = s
       THEN recStatus' = "null" /\ exited' = TRUE
       ELSE UNCHANGED <<recStatus, exited>>

InitDaemon ==
    /\ currentSession = 0 /\ shuttingDown = FALSE /\ recStatus = "spawned"
    /\ exited = FALSE /\ started = 0
    /\ stage = [s \in Sessions |-> "none"]
    /\ micResult = [s \in Sessions |-> "none"]
    /\ speakerResult = [s \in Sessions |-> "none"]
    /\ mergeCalled = [s \in Sessions |-> FALSE]
    /\ shutdownAwaits = 0
    /\ micEvents = 0
    /\ stopCalls = [s \in Sessions |-> 0]
    /\ isRecording = FALSE /\ stdinPipe = <<>> /\ stdoutPipe = <<>> /\ clicks = 0
    /\ FilterIdle /\ LabelIdle /\ MergeIdle /\ DurationIdle
    /\ ScanIdle /\ DetectorIdle /\ TranscribeIdle

\* the handler's guard without its test of shuttingDown
MicActiveIgnored_sessionOnly == currentSession # 0

\* if (currentSession || shuttingDown) return
MicActiveIgnored == currentSession # 0 \/ shuttingDown

\* detector.on("mic-active"): the event is delivered and the handler either
\* returns at once or starts the two recorders of a new session
MicActive ==
    /\ ~exited /\ micEvents < MaxMicEvents
    /\ MicActiveIgnored \/ started < MaxSessions
    /\ micEvents' = micEvents + 1
    /\ IF MicActiveIgnored
       THEN UNCHANGED <<started, currentSession, stage, stdinPipe>>
       ELSE /\ started' = started + 1
            /\ currentSession' = started + 1
            /\ stage' = [stage EXCEPT ![started + 1] = "recording"]
            /\ stdinPipe' = sendRecStatus(stdinPipe, "record")
    /\ UNCHANGED <<shuttingDown, recStatus, exited, micResult, speakerResult,
                   mergeCalled, shutdownAwaits, stopCalls,
                   isRecording, stdoutPipe, clicks,
                   filterVars, labelVars, mergeVars, durationVars,
                   scanVars, detectorVars, transcribeVars>>

\* buttonClicked of the indicator
ButtonClicked ==
    /\ recStatus = "spawned" /\ clicks < MaxClicks
    /\ clicks' = clicks + 1
    /\ IF isRecording
       THEN stdoutPipe' = Append(stdoutPipe, "stop") /\ isRecording' = FALSE
       ELSE stdoutPipe' = Append(stdoutPipe, "start") /\ isRecording' = TRUE
    /\ UNCHANGED <<daemonVars, stdinPipe,
                   filterVars, labelVars, mergeVars, durationVars,
                   scanVars, detectorVars, transcribeVars>>

\* the indicator takes one command line from its stdin
IndicatorCommand ==
    /\ recStatus = "spawned" /\ stdinPipe # <<>>
    /\ isRecording' = (IF Head(stdinPipe) = "record" THEN TRUE
                       ELSE IF Head(stdinPipe) = "idle" THEN FALSE
                       ELSE isRecording)
    /\ stdinPipe' = Tail(stdinPipe)
    /\ UNCHANGED <<daemonVars, stdoutPipe, clicks,
                   filterVars, labelVars, mergeVars, durationVars,
                   scanVars, detectorVars, transcribeVars>>

\* the daemon's reader takes one line from the indicator's stdout
ReadLine ==
    /\ ~exited /\ stdoutPipe # <<>>
    /\ stdoutPipe' = Tail(stdoutPipe)
    /\ IF Head(stdoutPipe) = "stop"
       THEN FinishRecording
       ELSE UNCHANGED <<currentSession, stdinPipe, stage, stopCalls>>
    /\ UNCHANGED <<shuttingDown, recStatus, exited, started, micResult,
                   speakerResult, mergeCalled, shutdownAwaits, micEvents,
                   isRecording,
                   clicks, filterVars, labelVars, mergeVars, durationVars,
                   scanVars, detectorVars, transcribeVars>>

\* both recorders have stopped (whether stop() fulfilled or rejected):
\* stopSession starts the two transcriptions
RecordersStopped(s) ==
    /\ ~exited /\ stage[s] = "stopping"
    /\ stage' = [stage EXCEPT ![s] = "transcribing"]
    /\ micResult' = [micResult EXCEPT ![s] = "pending"]
    /\ speakerResult' = [speakerResult EXCEPT ![s] = "pending"]
    /\ UNCHANGED <<currentSession, shuttingDown, recStatus, exited, started,
                   mergeCalled, shutdownAwaits, micEvents, stopCalls,
                   indicatorVars,
                   filterVars, labelVars, mergeVars, durationVars,
                   scanVars, detectorVars, transcribeVars>>

\* one transcribe call of session s settles; when Promise.all settles with
\* it, stopSession goes on to mergeTranscripts or to its catch block
TranscribeSettles(s, channel, outcome) ==
    /\ ~exited
    /\ IF channel = "mic" THEN micResult[s] = "pending"
       ELSE speakerResult[s] = "pending"
    /\ micResult' = IF channel = "mic" THEN [micResult EXCEPT ![s] = outcome]
                    ELSE micResult
    /\ speakerResult' = IF channel = "mic" THEN speakerResult
                        ELSE [speakerResult EXCEPT ![s] = outcome]
    /\ LET all == PromiseAll(micResult'[s], speakerResult'[s]) IN
       IF stage[s] = "transcribing" /\ all = "fulfilled"
       THEN /\ stage' = [stage EXCEPT ![s] = "merging"]
            /\ mergeCalled' = [mergeCalled EXCEPT ![s] = TRUE]
            /\ UNCHANGED <<recStatus, exited>>
       ELSE IF stage[s] = "transcribing" /\ all = "rejected"
       THEN /\ StopSessionReturns(s, "failed")
            /\ UNCHANGED mergeCalled
       ELSE UNCHANGED <<stage, mergeCalled, recStatus, exited>>
    /\ UNCHANGED <<currentSession, shuttingDown, started, shutdownAwaits,
                   micEvents, stopCalls,
                   indicatorVars, filterVars, labelVars, mergeVars, durationVars,
                   scanVars, detectorVars, transcribeVars>>

\* mergeTranscripts of session s settles: the transcript is written, or it
\* threw and stopSession's catch block logs the error
MergeSettles(s, outcome) ==
    /\ ~exited /\ stage[s] = "merging"
    /\ StopSessionReturns(s, IF outcome = "fulfilled" THEN "written" ELSE "failed")
    /\ UNCHANGED <<currentSession, shuttingDown, started, micResult,
                   speakerResult, mergeCalled, shutdownAwaits, micEvents,
                   stopCalls, indicatorVars,
                   filterVars, labelVars, mergeVars, durationVars,
                   scanVars, detectorVars, transcribeVars>>

\* SIGINT or SIGTERM: shutdown
Shutdown ==
    /\ ~exited /\ ~shuttingDown
    /\ shuttingDown' = TRUE
    /\ IF currentSession = 0
       THEN /\ recStatus' = "null" /\ exited' = TRUE
            /\ UNCHANGED <<currentSession, stdinPipe, stage, shutdownAwaits,
                           stopCalls>>
       ELSE /\ FinishRecording
            /\ shutdownAwaits' = currentSession
            /\ UNCHANGED <<recStatus, exited>>
    /\ UNCHANGED <<started, micResult, speakerResult, mergeCalled,
                   micEvents, isRecording, stdoutPipe, clicks,
                   filterVars, labelVars, mergeVars, durationVars,
                   scanVars, detectorVars, transcribeVars>>

Outcomes == {"fulfilled", "rejected"}
Channels == {"mic", "speaker"}

NextDaemon ==
    \/ MicActive \/ ButtonClicked \/ IndicatorCommand \/ ReadLine \/ Shutdown
    \/ \E s \in Sessions : RecordersStopped(s)
    \/ \E s \in Sessions, channel \in Channels, outcome \in Outcomes :
          TranscribeSettles(s, channel, outcome)
    \/ \E s \in Sessions, outcome \in Outcomes : MergeSettles(s, outcome)

SpecDaemon == InitDaemon /\ [][NextDaemon]_vars

----------------------------------------------------------------------------
(* formatDuration on a whole number of seconds                             *)

MaxSeconds == 3700

InitDuration ==
    /\ durationSeconds \in 0..MaxSeconds
    /\ durationText = <<>> /\ dpc = "start"
    /\ FilterIdle /\ LabelIdle /\ MergeIdle /\ ProcessIdle
    /\ ScanIdle /\ DetectorIdle /\ TranscribeIdle

FormatDuration ==
    /\ dpc = "start"
    /\ durationText' = formatDuration(durationSeconds)
    /\ dpc' = "formatted"
    /\ UNCHANGED <<durationSeconds, filterVars, labelVars, mergeVars, processVars,
                   scanVars, detectorVars, transcribeVars>>

NextDuration == FormatDuration

SpecDuration == InitDuration /\ [][NextDuration]_vars

----------------------------------------------------------------------------
(* The marking loop of labelWords, one window per step                     *)

MaxScanChunks == 3

ScanInputs ==
    ({Flatten(cs) : cs \in SeqUpTo(Chunks, MaxScanChunks)} \ {<<>>})
        \cup {c.tokens : c \in LabelCases}

ScanTexts == SpeakerTexts \cup {c.reference : c \in LabelCases}

\* the state at the head of the loop: isThem filled with false, i = 0
InitScan ==
    /\ scanWords \in ScanInputs
    /\ scanText \in ScanTexts
    /\ scanMarks = [k \in 1..Len(scanWords) |-> FALSE]
    /\ scanIndex = 0 /\ spc = "scanning"
    /\ FilterIdle /\ LabelIdle /\ MergeIdle /\ ProcessIdle /\ DurationIdle
    /\ DetectorIdle /\ TranscribeIdle

\* one iteration that stores the outcome of the match in the window's marks
ScanWindow_clearing ==
    /\ spc = "scanning" /\ scanIndex <= Len(scanWords) - RUN_LENGTH
    /\ scanMarks' =
          [k \in 1..Len(scanWords) |->
              IF scanIndex < k /\ k <= scanIndex + RUN_LENGTH
              THEN Includes(scanText, Join(Slice(scanWords, scanIndex, scanIndex + RUN_LENGTH), SP))
              ELSE scanMarks[k]]
    /\ scanIndex' = scanIndex + 1
    /\ UNCHANGED <<scanWords, scanText, spc, filterVars, labelVars, mergeVars,
                   processVars, durationVars, detectorVars, transcribeVars>>

\* one iteration of the marking loop
ScanWindow ==
    /\ spc = "scanning" /\ scanIndex <= Len(scanWords) - RUN_LENGTH
    /\ scanMarks' = MarkWindow(scanWords, scanText, scanMarks, scanIndex)
    /\ scanIndex' = scanIndex + 1
    /\ UNCHANGED <<scanWords, scanText, spc, filterVars, labelVars, mergeVars,
                   processVars, durationVars, detectorVars, transcribeVars>>

\* the loop condition fails
ScanEnds ==
    /\ spc = "scanning" /\ ~(scanIndex <= Len(scanWords) - RUN_LENGTH)
    /\ spc' = "scanned"
    /\ UNCHANGED <<scanWords, scanText, scanMarks, scanIndex,
                   filterVars, labelVars, mergeVars,
                   processVars, durationVars, detectorVars, transcribeVars>>

NextScan == ScanWindow \/ ScanEnds

SpecScan == InitScan /\ [][NextScan]_vars

----------------------------------------------------------------------------
(* The mic detector (detect.ts).  A poll runs to its await of checkMic in  *)
(* one step; its continuation runs when checkMic settles, and the polls    *)
(* that are awaiting may settle in any order.                              *)

MaxPolls == 5

\* what a poll's checkMic call yields: a device name, null, the empty
\* string (an empty line of output), or an exception
CheckResults == {"device", "null", "empty", "throws"}

\* truthiness of deviceName
Truthy(deviceName) == deviceName = "device"

\* the continuation emitting mic-active on every check that names a device
PollContinuation_everyCheck(active, deviceName) ==
    IF deviceName = "throws" THEN [wasActive |-> active, event |-> "error"]
    ELSE IF Truthy(deviceName)
    THEN [wasActive |-> TRUE, event |-> "mic-active"]
    ELSE IF ~Truthy(deviceName) /\ active
    THEN [wasActive |-> FALSE, event |-> "mic-inactive"]
    ELSE [wasActive |-> active, event |-> "none"]

\* poll after its await: the new value of wasActive and the event emitted
PollContinuation(active, deviceName) ==
    IF deviceName = "throws" THEN [wasActive |-> active, event |-> "error"]
    ELSE IF Truthy(deviceName) /\ ~active
    THEN [wasActive |-> TRUE, event |-> "mic-active"]
    ELSE IF ~Truthy(deviceName) /\ active
    THEN [wasActive |-> FALSE, event |-> "mic-inactive"]
    ELSE [wasActive |-> active, event |-> "none"]

\* createMicDetector has returned: the interval is set and the first poll
\* awaits checkMic
InitDetector ==
    /\ wasActive = FALSE /\ timer = "set" /\ stopped = FALSE
    /\ pendingPolls = 1 /\ polls = 1
    /\ emitted = <<>> /\ emittedAtStop = -1
    /\ FilterIdle /\ LabelIdle /\ MergeIdle /\ ProcessIdle /\ DurationIdle
    /\ ScanIdle /\ TranscribeIdle

\* the interval fires: poll up to its await
TimerFires ==
    /\ timer = "set" /\ polls < MaxPolls
    /\ polls' = polls + 1
    /\ pendingPolls' = IF stopped THEN pendingPolls ELSE pendingPolls + 1
    /\ UNCHANGED <<wasActive, timer, stopped, emitted, emittedAtStop,
                   filterVars, labelVars, mergeVars, processVars, durationVars,
                   scanVars, transcribeVars>>

\* checkMic of one awaiting poll settles and the poll runs to its end
CheckMicSettles(deviceName) ==
    /\ pendingPolls > 0
    /\ pendingPolls' = pendingPolls - 1
    /\ LET after == PollContinuation(wasActive, deviceName) IN
       /\ wasActive' = after.wasActive
       /\ emitted' = IF after.event = "none" THEN emitted
                     ELSE Append(emitted, after.event)
    /\ UNCHANGED <<timer, stopped, polls, emittedAtStop,
                   filterVars, labelVars, mergeVars, processVars, durationVars,
                   scanVars, transcribeVars>>

\* emitter.stop()
DetectorStop ==
    /\ ~stopped
    /\ stopped' = TRUE
    /\ timer' = "null"
    /\ emittedAtStop' = Len(emitted)
    /\ UNCHANGED <<wasActive, pendingPolls, polls, emitted,
                   filterVars, labelVars, mergeVars, processVars, durationVars,
                   scanVars, transcribeVars>>

NextDetector ==
    \/ TimerFires \/ DetectorStop
    \/ \E deviceName \in CheckResults : CheckMicSettles(deviceName)

SpecDetector == InitDetector /\ [][NextDetector]_vars

----------------------------------------------------------------------------
(* The two transcribe calls of one session (transcribe.ts) and the JSON    *)
(* files the engine leaves in the temporary directory.  engine selects the *)
(* version of transcribe: the one that names its output after the WAV file *)
(* ("basename") or the one that names it after Date.now() ("clock").       *)

Engines == {"basename", "clock"}
ClockStarts == {7, 8}
MaxClockStep == 1
SessionTimestamps == {<<"1">>, <<"2">>}

RecordingsDir == <<"r">>
TmpDir == <<"t">>
DotWav == <<".", "w", "a", "v">>
DotJson == <<".", "j", "s", "o", "n">>
WhisperDash == <<"w", "h", "i", "s", "p", "e", "r", "-">>

Prefix(channel) ==
    IF channel = "mic" THEN <<"m", "i", "c">>
    ELSE <<"s", "p", "e", "a", "k", "e", "r">>

\* join(RECORDINGS_DIR, `${prefix}_${sessionTimestamp}.wav`)
RecordingPath(channel, ts) ==
    RecordingsDir \o <<"/">> \o Prefix(channel) \o <<"_">> \o ts \o DotWav

\* path.replace(/.*\//, "").replace(/\.wav$/, "")
BaseName(path) ==
    LET slash == LastIndexOf(path, <<"/">>)
        file == IF slash = -1 THEN path ELSE Slice(path, slash + 1, Len(path))
    IN  IF Len(file) >= Len(DotWav) /\ SliceLast(file, Len(DotWav)) = DotWav
        THEN Slice(file, 0, Len(file) - Len(DotWav))
        ELSE file

\* outputBase of a transcribe call on path at time now
OutputBase(version, path, now) ==
    IF version = "basename"
    THEN TmpDir \o <<"/">> \o WhisperDash \o BaseName(path)
    ELSE TmpDir \o <<"/">> \o WhisperDash \o DecStr(now)

\* jsonPath
JsonPath(base) == base \o DotJson

\* the file at path p of the temporary directory, if any
FileAt(p) == {f \in tmpFiles : f.path = p}

InitTranscribe ==
    /\ engine \in Engines
    /\ clock \in ClockStarts
    /\ \E ts \in SessionTimestamps :
          wavPath = [c \in Channels |-> RecordingPath(c, ts)]
    /\ outputBase = [c \in Channels |-> <<>>]
    /\ tmpFiles = {}
    /\ tpc = [c \in Channels |-> "idle"]
    /\ readOutput = [c \in Channels |-> "none"]
    /\ unlinked = [c \in Channels |-> "none"]
    /\ FilterIdle /\ LabelIdle /\ MergeIdle /\ ProcessIdle /\ DurationIdle
    /\ ScanIdle /\ DetectorIdle

\* stopSession builds the argument of Promise.all: transcribe runs on the
\* mic file up to its first await, then on the speaker file; the clock may
\* advance in between
StartTranscriptions ==
    /\ tpc = [c \in Channels |-> "idle"]
    /\ \E step \in 0..MaxClockStep :
          /\ clock' = clock + step
          /\ outputBase' =
                [c \in Channels |->
                    OutputBase(engine, wavPath[c],
                               IF c = "mic" THEN clock ELSE clock + step)]
    /\ tpc' = [c \in Channels |-> "running"]
    /\ UNCHANGED <<engine, wavPath, tmpFiles, readOutput, unlinked,
                   filterVars, labelVars, mergeVars, processVars, durationVars,
                   scanVars, detectorVars>>

\* the engine of one call writes its JSON output and exits with code 0, or
\* exits with another code and transcribe throws
EngineExits(channel, outcome) ==
    /\ tpc[channel] = "running"
    /\ IF outcome = "fulfilled"
       THEN /\ tmpFiles' = (tmpFiles \ FileAt(JsonPath(outputBase[channel])))
                    \cup {[path |-> JsonPath(outputBase[channel]), from |-> channel]}
            /\ tpc' = [tpc EXCEPT ![channel] = "exited"]
       ELSE /\ tpc' = [tpc EXCEPT ![channel] = "threw"]
            /\ UNCHANGED tmpFiles
    /\ UNCHANGED <<engine, clock, wavPath, outputBase, readOutput, unlinked,
                   filterVars, labelVars, mergeVars, processVars, durationVars,
                   scanVars, detectorVars>>

\* await Bun.file(jsonPath).json()
ReadJson(channel) ==
    /\ tpc[channel] = "exited"
    /\ LET file == FileAt(JsonPath(outputBase[channel])) IN
       IF file = {}
       THEN /\ tpc' = [tpc EXCEPT ![channel] = "threw"]
            /\ UNCHANGED readOutput
       ELSE /\ tpc' = [tpc EXCEPT ![channel] = "read"]
            /\ readOutput' = [readOutput EXCEPT ![channel] = (CHOOSE f \in file : TRUE).from]
    /\ UNCHANGED <<engine, clock, wavPath, outputBase, tmpFiles, unlinked,
                   filterVars, labelVars, mergeVars, processVars, durationVars,
                   scanVars, detectorVars>>

\* try { unlinkSync(jsonPath) } catch {} and the return of the segments
Unlink(channel) ==
    /\ tpc[channel] = "read"
    /\ tpc' = [tpc EXCEPT ![channel] = "returned"]
    /\ LET file == FileAt(JsonPath(outputBase[channel])) IN
       IF file = {}
       THEN UNCHANGED <<tmpFiles, unlinked>>
       ELSE /\ tmpFiles' = tmpFiles \ file
            /\ unlinked' = [unlinked EXCEPT ![channel] = (CHOOSE f \in file : TRUE).from]
    /\ UNCHANGED <<engine, clock, wavPath, outputBase, readOutput,
                   filterVars, labelVars, mergeVars, processVars, durationVars,
                   scanVars, detectorVars>>

NextTranscribe ==
    \/ StartTranscriptions
    \/ \E channel \in Channels, outcome \in Outcomes : EngineExits(channel, outcome)
    \/ \E channel \in Channels : ReadJson(channel)
    \/ \E channel \in Channels : Unlink(channel)

SpecTranscribe == InitTranscribe /\ [][NextTranscribe]_vars

----------------------------------------------------------------------------
(* Properties                                                              *)

\* the tokens of a run list, in run order
RunTokens(rs) == Flatten([k \in 1..Len(rs) |-> SplitSpace(rs[k].text)])

\* the whitespace-separated words of the primary segments, in order
PrimaryWords(segs) ==
    Flatten([k \in 1..Len(segs) |-> SelectSeq(SplitSpace(segs[k].text), NonEmpty)])

\* the words of the document's pieces of one kind, in order
PieceWords(body, kinds) ==
    Flatten([k \in 1..Len(body) |->
        IF body[k].kind \in kinds
        THEN SelectSeq(SplitSpace(body[k].text), NonEmpty) ELSE <<>>])

NoUndefinedRun(rs) == \A k \in 1..Len(rs) : rs[k] # UndefinedRun

\* C1: the runs of labelWords partition the input tokens: the tokens of the
\* runs, split on spaces and concatenated in run order, are the input token
\* sequence after grouping, after gap absorption and after the final merge
\* (both absorbers).
C1_RunsPartitionTokens ==
    /\ lpc = "grouped" => RunTokens(runs) = micWords
    /\ lpc = "absorbed" => RunTokens(merged) = micWords
    /\ lpc = "returned" => RunTokens(final) = micWords

\* a You run was absorbed and the final pass merged two Them runs
C1_Witness ==
    /\ lpc = "returned"
    /\ Len(merged) < Len(runs)
    /\ Len(final) < Len(merged)
    /\ Len(final) >= 2

\* C2 (as claimed): in normal mode the You/Them blocks, concatenated in
\* order, contain every word of the hallucination-filtered original-case
\* primary word list exactly once and in order.
C2_BlocksKeepEveryWord ==
    (mpc = "written" /\ Len(speakerSegments) > 0) =>
        PieceWords(mt.md.body, {"labeled"})
            = removeMicHallucinations(PrimaryWords(micSegments))

\* C3 (as claimed): filtering the filter's output changes nothing.
C3_FilterIdempotent ==
    fpc = "refiltered" => refiltered = result

\* C4 (as claimed): an empty primary channel gives the title line only.
C4_EmptyPrimaryTitleOnly ==
    (mpc = "written" /\ PrimaryWords(micSegments) = <<>>) => mt.md.body = <<>>

\* C5: with zero reference segments labelWords is not run and the body is
\* the note line followed by one unlabeled block, the hallucination-filtered
\* primary words in original case joined by single spaces.
C5_DeadChannelExact ==
    (mpc = "written" /\ Len(speakerSegments) = 0) =>
        /\ ~mt.labelRan
        /\ mt.md.body =
              <<Piece("note", "", <<>>),
                Piece("raw", "",
                      Join(removeMicHallucinations(PrimaryWords(micSegments)), SP))>>

\* degraded mode on a primary channel from which a loop was removed
C5_Witness ==
    /\ mpc = "written" /\ Len(speakerSegments) = 0
    /\ Len(mt.micWords) >= 2
    /\ Len(mt.micWords) < Len(PrimaryWords(micSegments))

\* C6: no two adjacent runs of labelWords' result have the same speaker.
C6_LabelsAlternate ==
    lpc = "returned" =>
        \A k \in 1..(Len(final) - 1) : final[k].speaker # final[k + 1].speaker

\* absorption left two adjacent Them runs for the final pass to merge
C6_Witness ==
    /\ lpc = "returned"
    /\ \E k \in 1..(Len(merged) - 1) : merged[k].speaker = merged[k + 1].speaker

\* run i (1-based) of rs is a You run of at most MIN_GAP_WORDS tokens with
\* a Them run on both sides
IsShortGap(rs, i) ==
    /\ 1 < i /\ i < Len(rs)
    /\ rs[i].speaker = "You"
    /\ rs[i - 1].speaker = "Them" /\ rs[i + 1].speaker = "Them"
    /\ Len(SplitSpace(rs[i].text)) <= MIN_GAP_WORDS

\* rs with exactly the short gaps appended to the run before them
WithShortGapsAbsorbed(rs) ==
    LET Stays(i) == ~IsShortGap(rs, i)
        kept == SelectSeq(Positions(rs), Stays)
    IN  [p \in 1..Len(kept) |->
            LET i == kept[p] IN
            Run(rs[i].speaker,
                IF IsShortGap(rs, i + 1)
                THEN rs[i].text \o SP \o rs[i + 1].text
                ELSE rs[i].text)]

Spec10_4_10 == RefA \o RefB \o Own4 \o RefA \o RefB

\* C7: the unconditional absorber appends a You run to the preceding Them
\* run exactly when it lies between two Them runs and has at most
\* MIN_GAP_WORDS tokens; [Them(10), You(4), Them(10)] ends as one Them run
\* of 24 tokens; every You run of the result that is neither first nor last
\* has more than MIN_GAP_WORDS tokens.
C7_AbsorbsExactlyShortGaps ==
    variant = "gap" =>
        /\ lpc = "absorbed" => merged = WithShortGapsAbsorbed(runs)
        /\ lpc = "returned" =>
              /\ \A k \in 2..(Len(final) - 1) :
                    final[k].speaker = "You" =>
                        Len(SplitSpace(final[k].text)) > MIN_GAP_WORDS
              /\ (Len(runs) = 3 /\ micWords = Spec10_4_10) =>
                    final = <<Run("Them", Join(Spec10_4_10, SP))>>

\* the example of the spec: [Them(10), You(4), Them(10)] became one run
C7_Witness ==
    /\ variant = "gap" /\ lpc = "returned"
    /\ micWords = Spec10_4_10
    /\ Len(runs) = 3 /\ runs[2].speaker = "You"
    /\ Len(final) = 1

\* a phrase of six distinct words repeated five times
IsSixWordLoop(ws) ==
    /\ Len(ws) = 30
    /\ ws = Repeat(SubSeq(ws, 1, 6), 5)
    /\ Cardinality({ws[k] : k \in 1..6}) = 6

\* the number of positions at which phrase occurs in ws
CountPhrase(ws, phrase) == Cardinality(Occurrences(ws, phrase))

\* C8 (as claimed): a six-word phrase repeated five times leaves at most one
\* copy of the phrase in the filter's output.
C8_LoopRemoved ==
    (fpc = "filtered" /\ IsSixWordLoop(words)) =>
        CountPhrase(result, SubSeq(words, 1, 6)) <= 1

\* C9: on the empty token list, the empty string and the empty segment
\* lists every function returns a defined result: the filter and labelWords
\* return the empty list, no run list holds an undefined run, and
\* mergeTranscripts writes its document instead of throwing.
C9_TotalOnEmptyInput ==
    /\ (fpc # "start" /\ words = <<>>) => result = <<>>
    /\ (fpc = "refiltered" /\ result = <<>>) => refiltered = <<>>
    /\ (lpc = "returned" /\ micWords = <<>>) => final = <<>>
    /\ NoUndefinedRun(runs) /\ NoUndefinedRun(merged) /\ NoUndefinedRun(final)
    /\ mpc # "threw"
    /\ (mpc = "written" /\ mt.labelRan) =>
          /\ NoUndefinedRun(mt.runs)
          /\ (PrimaryWords(micSegments) = <<>>) => mt.normalizedMicWords = <<<<>>>>
          /\ (PrimaryWords(speakerSegments) = <<>>) => mt.speakerText = <<>>

\* every entry point has returned from its empty input
C9_Witness ==
    /\ fpc = "refiltered" /\ words = <<>>
    /\ lpc = "returned" /\ micWords = <<>>
    /\ mpc = "written" /\ micSegments = <<>>
    /\ Len(speakerSegments) = 1 /\ mt.labelRan

\* C11: mergeTranscripts is called for a session only when both of its
\* transcribe calls have fulfilled; when either rejected, mergeTranscripts
\* is never called for it and no transcript is written; and the daemon does
\* not exit on such a failure: it exits only through shutdown.
C11_MergeOnlyAfterBothTranscribed ==
    /\ \A s \in DOMAIN stage :
          /\ mergeCalled[s] =>
                micResult[s] = "fulfilled" /\ speakerResult[s] = "fulfilled"
          /\ (micResult[s] = "rejected" \/ speakerResult[s] = "rejected") =>
                ~mergeCalled[s] /\ stage[s] \notin {"merging", "written"}
          /\ stage[s] = "written" => mergeCalled[s]
    /\ exited => shuttingDown

\* a session failed on a rejected transcription without a merge, and the
\* daemon went on to record a later session and write its transcript
C11_Witness ==
    /\ ~exited /\ ~shuttingDown
    /\ \E s, t \in DOMAIN stage :
          /\ s < t
          /\ stage[s] = "failed" /\ ~mergeCalled[s]
          /\ "rejected" \in {micResult[s], speakerResult[s]}
          /\ stage[t] = "written" /\ mergeCalled[t]

\* C12 (as claimed): when the daemon has exited, every session that was
\* started has had its recorders stopped and its transcribe-and-merge
\* pipeline run to completion or failure.
C12_ExitsAfterEveryPipeline ==
    exited => \A s \in 1..started : stage[s] \in {"written", "failed"}

\* C13 (as claimed): with both pipes empty, the indicator shows recording
\* exactly when the daemon has a current session.
C13_IndicatorMatchesSession ==
    (recStatus = "spawned" /\ stdinPipe = <<>> /\ stdoutPipe = <<>>) =>
        (isRecording <=> currentSession # 0)

\* the value of a decimal digit
DigitValue(c) == CHOOSE d \in 0..9 : Digits[d + 1] = c

\* a decimal numeral without sign or leading zeros
IsNumeral(ds) ==
    /\ Len(ds) > 0
    /\ \A k \in 1..Len(ds) : IsDigit(ds[k])
    /\ Len(ds) > 1 => ds[1] # "0"

RECURSIVE NumeralValue(_)
NumeralValue(ds) ==
    IF Len(ds) = 0 THEN 0
    ELSE NumeralValue(SubSeq(ds, 1, Len(ds) - 1)) * 10 + DigitValue(ds[Len(ds)])

\* C14: formatDuration(d) is "<S>s" with S = d when d < 60 and "<M>m <S>s"
\* with M = d div 60 and S = d mod 60, 0 <= S <= 59, when d >= 60; the
\* minutes part is there exactly when d >= 60.
C14_DurationRendering ==
    dpc = "formatted" =>
        LET t == durationText
            d == durationSeconds
            ms == Occurrences(t, <<"m">>)
        IN  /\ (ms # {}) <=> (d >= 60)
            /\ Len(t) >= 2 /\ t[Len(t)] = "s"
            /\ d < 60 =>
                  LET S == SubSeq(t, 1, Len(t) - 1) IN
                  IsNumeral(S) /\ NumeralValue(S) = d
            /\ d >= 60 =>
                  /\ Cardinality(ms) = 1
                  /\ LET p == SetMin(ms)
                         M == SubSeq(t, 1, p)
                         S == SubSeq(t, p + 3, Len(t) - 1)
                     IN  /\ SubSeq(t, p + 1, p + 2) = <<"m", " ">>
                         /\ IsNumeral(M) /\ IsNumeral(S)
                         /\ NumeralValue(M) = d \div 60
                         /\ NumeralValue(S) = d % 60
                         /\ NumeralValue(S) <= 59
                         /\ NumeralValue(M) * 60 + NumeralValue(S) = d

\* exactly one minute, rendered with a zero seconds part
C14_Witness ==
    /\ dpc = "formatted" /\ durationSeconds = 60
    /\ durationText = <<"1", "m", " ", "0", "s">>

\* the window of RUN_LENGTH tokens starting at 0-based position i
Window(mw, i) == SubSeq(mw, i + 1, i + RUN_LENGTH)

\* some full window that covers 0-based position k is a substring of st
CoveredByMatch(mw, st, k) ==
    \E i \in 0..(Len(mw) - RUN_LENGTH) :
        /\ i <= k /\ k < i + RUN_LENGTH
        /\ Includes(st, Join(Window(mw, i), SP))

\* the speaker of every token, run by run
RunLabels(rs) ==
    Flatten([r \in 1..Len(rs) |->
        [t \in 1..Len(SplitSpace(rs[r].text)) |-> rs[r].speaker]])

\* C15: after the window scan the token at index k is Them exactly when a
\* full window of RUN_LENGTH tokens that covers k is a substring of the
\* reference text; every other token is You, and the grouped runs carry
\* these labels ([yes i agree with that plan lets go] against "i agree with
\* that plan" gives You(yes), Them(i agree with that plan), You(lets go)).
C15_MarkedIffCoveredByMatch ==
    /\ lpc = "marked" =>
          \A k \in 0..(Len(micWords) - 1) :
              isThem[k + 1] <=> CoveredByMatch(micWords, speakerText, k)
    /\ lpc = "grouped" =>
          /\ RunLabels(runs) = [k \in 1..Len(micWords) |-> SpeakerOf(isThem[k])]
          /\ (micWords = ExampleTokens /\ speakerText = ExampleReference) =>
                runs = << Run("You", ExampleTokens[1]),
                          Run("Them", ExampleReference),
                          Run("You", Join(SubSeq(ExampleTokens, 7, 8), SP)) >>

\* the example of the spec has been scanned and grouped into three runs
C15_Witness ==
    /\ lpc = "grouped"
    /\ micWords = ExampleTokens /\ speakerText = ExampleReference
    /\ Len(runs) = 3 /\ runs[2].speaker = "Them"
    /\ isThem = <<FALSE, TRUE, TRUE, TRUE, TRUE, TRUE, FALSE, FALSE>>

RECURSIVE LastRepeatEnd(_, _, _, _, _)
\* the position just after the last repeat of candidate that the scan from
\* j detects inside the lookahead of i
LastRepeatEnd(ws, candidate, i, j, last) ==
    IF j + NGRAM <= Min(i + WINDOW, Len(ws))
    THEN IF Join(Slice(ws, j, j + NGRAM), SP) = candidate
         THEN LastRepeatEnd(ws, candidate, i, j + NGRAM, j + NGRAM)
         ELSE LastRepeatEnd(ws, candidate, i, j + 1, last)
    ELSE last

RECURSIVE KeptResumingAfterLastRepeat(_, _, _)
\* the tokens kept when a confirmed cluster discards the tokens from i
\* through its last detected repeat and the scan resumes right after it
KeptResumingAfterLastRepeat(ws, i, kept) ==
    IF i < Len(ws)
    THEN IF i + NGRAM <= Len(ws)
         THEN LET candidate == Join(Slice(ws, i, i + NGRAM), SP)
                  scan == ScanRepeats(ws, candidate, i, i + NGRAM, 1)
              IN  IF scan.count >= MIN_REPEATS
                  THEN KeptResumingAfterLastRepeat(ws,
                           LastRepeatEnd(ws, candidate, i, i + NGRAM, i + NGRAM), kept)
                  ELSE KeptResumingAfterLastRepeat(ws, i + 1, Append(kept, ws[i + 1]))
         ELSE KeptResumingAfterLastRepeat(ws, i + 1, Append(kept, ws[i + 1]))
    ELSE kept

\* C16 (as claimed): a confirmed cluster discards exactly the tokens from
\* the candidate's start through the end of its last detected repeat, and
\* the tokens after that repeat are scanned again and kept.
C16_ResumesAfterLastRepeat ==
    fpc = "filtered" => result = KeptResumingAfterLastRepeat(words, 0, <<>>)

\* the n-gram at 0-based position i occurs again at two further positions
\* inside the lookahead of i, the three occurrences not overlapping
ThreeOccurrences(ws, i) ==
    /\ i + NGRAM <= Len(ws)
    /\ LET cand == SubSeq(ws, i + 1, i + NGRAM)
           lim == Min(i + WINDOW, Len(ws))
           occ == {j \in (i + NGRAM)..(lim - NGRAM) :
                      ws[j + 1] = cand[1] /\ SubSeq(ws, j + 1, j + NGRAM) = cand}
       IN  occ # {} /\ SetMax(occ) - SetMin(occ) >= NGRAM

\* the n-gram at 0-based position i is followed by two more copies of
\* itself, back to back
ThreeBackToBack(ws, i) ==
    /\ i + MIN_REPEATS * NGRAM <= Len(ws)
    /\ SubSeq(ws, i + 1, i + MIN_REPEATS * NGRAM)
          = Repeat(SubSeq(ws, i + 1, i + NGRAM), MIN_REPEATS)

\* the 0-based positions whose n-gram has three occurrences
ClusterStarts(ws) == {i \in 0..(Len(ws) - NGRAM) : ThreeOccurrences(ws, i)}

\* C20 (as claimed): only back-to-back repeats count, so tokens are
\* discarded only from an input that holds MIN_REPEATS back-to-back copies
\* of some n-gram.
C20_OnlyBackToBackRepeatsCount ==
    (fpc = "filtered" /\ result # words) =>
        \E i \in 0..(Len(words) - NGRAM) : ThreeBackToBack(words, i)

\* C20 (amended): every non-overlapping occurrence of the candidate inside
\* the lookahead counts, back to back or not: tokens are discarded exactly
\* when some n-gram occurs at MIN_REPEATS non-overlapping positions inside
\* its lookahead, and then everything from the first such n-gram through its
\* third occurrence is discarded, the tokens in between included.
C20_SeparatedOccurrencesCount ==
    fpc = "filtered" =>
        LET starts == ClusterStarts(words) IN
        /\ (result # words) <=> (starts # {})
        /\ starts # {} =>
              LET i == SetMin(starts)
                  cand == SubSeq(words, i + 1, i + NGRAM)
                  second == SetMin({j \in (i + NGRAM)..(Len(words) - NGRAM) :
                                      SubSeq(words, j + 1, j + NGRAM) = cand})
                  third == SetMin({j \in (second + NGRAM)..(Len(words) - NGRAM) :
                                      SubSeq(words, j + 1, j + NGRAM) = cand})
              IN  /\ SubSeq(result, 1, i) = SubSeq(words, 1, i)
                  /\ Len(result) <= i + (Len(words) - (third + NGRAM))

\* three occurrences with a word between the first two confirmed a cluster
C20_Witness ==
    /\ fpc = "filtered"
    /\ words = PhraseP \o HeadP \o PhraseP \o PhraseP
    /\ result = <<>>

\* the number of tokens of a run list
RunTokenCount(rs) == Len(RunTokens(rs))

\* C17 (as claimed): normalizing the filtered primary text gives as many
\* tokens as the filtered original word list has words, so the run token
\* counts used by the remap sum to the original word count.
C17_NormalizeKeepsTokenCount ==
    (mpc = "written" /\ mt.labelRan) =>
        /\ Len(mt.normalizedMicWords) = Len(mt.micWords)
        /\ RunTokenCount(mt.runs) = Len(mt.micWords)

\* a You run of more than MIN_GAP_WORDS tokens
LongYou(run) ==
    run.speaker = "You" /\ Len(SplitSpace(run.text)) > MIN_GAP_WORDS

\* C18 (as claimed): the anchor-based absorber absorbs only You runs of at
\* most MIN_GAP_WORDS tokens, so every longer You run of the grouped runs is
\* still a run of its own after absorption.
C18_AnchoredAbsorbsOnlyShortGaps ==
    (variant = "anchor" /\ lpc = "absorbed") =>
        SelectSeq(merged, LongYou) = SelectSeq(runs, LongYou)

\* run i (1-based) of rs is a You run between two Them runs such that the
\* last occurrence in st of the last three tokens of the run before it is
\* followed, fewer than 30 characters after its end, by an occurrence of
\* the first three tokens of the run after it
IsAnchoredGap(rs, st, i) ==
    /\ 1 < i /\ i < Len(rs)
    /\ rs[i].speaker = "You"
    /\ rs[i - 1].speaker = "Them" /\ rs[i + 1].speaker = "Them"
    /\ LET before == SplitSpace(rs[i - 1].text)
           after == SplitSpace(rs[i + 1].text)
           tail == Join(SubSeq(before, Max(1, Len(before) - 2), Len(before)), SP)
           head == Join(SubSeq(after, 1, Min(3, Len(after))), SP)
           tails == Occurrences(st, tail)
       IN  /\ tails # {}
           /\ \E q \in Occurrences(st, head) :
                 /\ q >= SetMax(tails)
                 /\ q - (SetMax(tails) + Len(tail)) < 30
                 /\ \A r \in Occurrences(st, head) : r >= SetMax(tails) => q <= r

\* rs with exactly the anchored gaps appended to the run before them
WithAnchoredGapsAbsorbed(rs, st) ==
    LET Stays(i) == ~IsAnchoredGap(rs, st, i)
        kept == SelectSeq(Positions(rs), Stays)
    IN  [p \in 1..Len(kept) |->
            LET i == kept[p] IN
            Run(rs[i].speaker,
                IF IsAnchoredGap(rs, st, i + 1)
                THEN rs[i].text \o SP \o rs[i + 1].text
                ELSE rs[i].text)]

\* C18 (amended): the anchor-based absorber absorbs a You run exactly when
\* it lies between two Them runs whose anchors are close in the reference
\* text; the run's token count plays no part, so it also absorbs You runs of
\* more than MIN_GAP_WORDS tokens and keeps short ones whose anchors are
\* not close.
C18_AnchoredAbsorbsExactlyAnchoredGaps ==
    (variant = "anchor" /\ lpc = "absorbed") =>
        merged = WithAnchoredGapsAbsorbed(runs, speakerText)

\* the anchor-based absorber has absorbed a You run of more than
\* MIN_GAP_WORDS tokens and kept a short one between two Them runs
C18_Witness ==
    /\ variant = "anchor" /\ lpc = "absorbed"
    /\ \E i \in 1..Len(runs) :
          LongYou(runs[i]) /\ IsAnchoredGap(runs, speakerText, i)
    /\ \E i \in 1..Len(runs) :
          IsShortGap(runs, i) /\ ~IsAnchoredGap(runs, speakerText, i)

\* the window at 0-based position i is RUN_LENGTH consecutive whole tokens
\* of the reference
WholeTokenMatch(mw, st, i) ==
    LET ref == SplitSpace(st) IN
    \E p \in 1..(Len(ref) - RUN_LENGTH + 1) :
        SubSeq(ref, p, p + RUN_LENGTH - 1) = Window(mw, i)

\* C19 (as claimed): a token is marked Them only if a window covering it
\* occurs as RUN_LENGTH consecutive whole tokens of the reference token
\* sequence.
C19_MarksOnlyWholeTokenMatches ==
    lpc = "marked" =>
        \A k \in 0..(Len(micWords) - 1) :
            isThem[k + 1] =>
                \E i \in 0..(Len(micWords) - RUN_LENGTH) :
                    /\ i <= k /\ k < i + RUN_LENGTH
                    /\ WholeTokenMatch(micWords, speakerText, i)

\* C21: during the window scan a mark that has become Them stays Them: no
\* later iteration, matching or not, clears the mark of a token
C21_MarksNeverCleared ==
    [][\A k \in 1..Len(scanMarks) : scanMarks[k] => scanMarks'[k]]_vars

\* a marked token lies inside a window that was scanned after the one that
\* marked it and that does not occur in the speaker text
C21_Witness ==
    \E k \in 1..Len(scanMarks), i \in 0..(scanIndex - 1), h \in 0..(scanIndex - 1) :
        /\ scanMarks[k]
        /\ h < i
        /\ h < k /\ k <= h + RUN_LENGTH
        /\ Includes(scanText, Join(Window(scanWords, h), SP))
        /\ i < k /\ k <= i + RUN_LENGTH
        /\ ~Includes(scanText, Join(Window(scanWords, i), SP))

\* the last NGRAM-1 tokens of ws, or all of ws if it is shorter than NGRAM
TailTokens(ws) == SliceLast(ws, NGRAM - 1)

\* out ends with the tokens of tail
EndsWith(out, tail) ==
    Len(out) >= Len(tail) /\ SliceLast(out, Len(tail)) = tail

\* C22 (as claimed): for every input the last NGRAM-1 tokens (all tokens, if
\* the input is shorter than NGRAM) are the last tokens of the output.
C22_TailAlwaysKept ==
    fpc = "filtered" => EndsWith(result, TailTokens(words))

\* some n-gram with three occurrences has, inside its lookahead, a later
\* occurrence that extends into the last NGRAM-1 tokens of ws
RepeatReachesTail(ws) ==
    \E i \in ClusterStarts(ws) :
        \E j \in (i + NGRAM)..(Min(i + WINDOW, Len(ws)) - NGRAM) :
            /\ SubSeq(ws, j + 1, j + NGRAM) = SubSeq(ws, i + 1, i + NGRAM)
            /\ j + NGRAM > Len(ws) - (NGRAM - 1)

\* C22 (amended): the last NGRAM-1 tokens of the input (all tokens, if the
\* input is shorter than NGRAM) are the last tokens of the output, also when
\* a confirmed cluster ends just before them, unless a repeat of a phrase
\* that occurs MIN_REPEATS times inside its lookahead extends into them.
C22_TailKeptUnlessRepeatReachesIt ==
    (fpc = "filtered" /\ ~RepeatReachesTail(words)) =>
        EndsWith(result, TailTokens(words))

\* a cluster ends right before the last NGRAM-1 tokens, which are all that
\* is kept
C22_Witness ==
    /\ fpc = "filtered"
    /\ words = PhraseP \o PhraseP \o PhraseP \o TailP
    /\ ~RepeatReachesTail(words)
    /\ result = TailP

\* C23: absorption and the final merge relabel only from You to Them: every
\* token the window scan marked Them is in a Them run of the returned list
\* (with the same token count as the input), and a You run that is first or
\* last among the grouped runs is returned unchanged, whatever its length.
C23_OnlyYouBecomesThem ==
    (lpc = "returned" /\ micWords # <<>>) =>
        /\ Len(RunLabels(final)) = Len(micWords)
        /\ \A k \in 1..Len(micWords) : isThem[k] => RunLabels(final)[k] = "Them"
        /\ runs[1].speaker = "You" => final[1] = runs[1]
        /\ runs[Len(runs)].speaker = "You" => final[Len(final)] = runs[Len(runs)]

\* a short You run ends the list after a Them run, a You run between two
\* Them runs was absorbed, and the last run is returned as it was grouped
C23_Witness ==
    /\ lpc = "returned"
    /\ Len(runs) >= 4
    /\ Len(final) < Len(runs)
    /\ runs[Len(runs)].speaker = "You"
    /\ Len(SplitSpace(runs[Len(runs)].text)) <= 3
    /\ final[Len(final)] = runs[Len(runs)]
    /\ \E k \in 1..Len(micWords) : isThem[k] /\ RunLabels(final)[k] = "Them"

RECURSIVE IsSubsequenceFrom(_, _, _, _)
\* the tokens of out from index a on occur, in order, among the tokens of
\* inp from index b on
IsSubsequenceFrom(out, inp, a, b) ==
    IF a > Len(out) THEN TRUE
    ELSE IF b > Len(inp) THEN FALSE
    ELSE IF out[a] = inp[b] THEN IsSubsequenceFrom(out, inp, a + 1, b + 1)
    ELSE IsSubsequenceFrom(out, inp, a, b + 1)

IsSubsequence(out, inp) == IsSubsequenceFrom(out, inp, 1, 1)

\* C24: the output of the filter is an order-preserving subsequence of its
\* input (no token added, altered or reordered), also when the filter is
\* applied to its own output, and it equals the input when no n-gram has
\* MIN_REPEATS occurrences inside its lookahead.
C24_OutputIsSubsequence ==
    /\ fpc \in {"filtered", "refiltered"} =>
          /\ IsSubsequence(result, words)
          /\ ClusterStarts(words) = {} => result = words
    /\ fpc = "refiltered" =>
          /\ IsSubsequence(refiltered, result)
          /\ ClusterStarts(result) = {} => refiltered = result

\* a loop between two kept tokens was cut out
C24_Witness ==
    /\ fpc = "filtered"
    /\ words = HeadP \o Repeat(PhraseQ, 3) \o HeadP
    /\ result = HeadP \o HeadP

\* C25: a mic-active event delivered while a session is current or after
\* shutdown has begun starts no recorder and leaves the current session and
\* every session's pipeline as they are; a session is created only by a
\* mic-active event that finds no current session and no shutdown, and it
\* becomes the current session.
C25_MicActiveStartsOnlyWhenIdle ==
    [][ /\ (micEvents' # micEvents /\ (currentSession # 0 \/ shuttingDown)) =>
              /\ started' = started
              /\ currentSession' = currentSession
              /\ stage' = stage
        /\ (started' # started \/ currentSession' \notin {0, currentSession}) =>
              /\ micEvents' # micEvents
              /\ currentSession = 0 /\ ~shuttingDown
              /\ started' = started + 1
              /\ currentSession' = started'
              /\ stage'[started'] = "recording" ]_vars

\* more mic-active events were delivered than sessions were started, and
\* shutdown has begun while the last session's pipeline is still running
C25_Witness ==
    /\ started >= 1 /\ micEvents > started
    /\ shuttingDown /\ ~exited

\* C26: stopSession is called exactly once for every session that is no
\* longer current and not at all for the current one, whatever the order of
\* stop clicks, repeated clicks and signals; so the recorders of a session
\* are stopped once and its transcription is started once.
C26_StopSessionOncePerSession ==
    \A s \in DOMAIN stopCalls :
        /\ stopCalls[s] <= 1
        /\ stopCalls[s] = (IF stage[s] \in {"none", "recording"} THEN 0 ELSE 1)
        /\ (s <= started /\ s # currentSession) => stopCalls[s] = 1
        /\ s = currentSession => stopCalls[s] = 0

\* the session was stopped by a click; every later click was read and the
\* signal's finishRecording found no session to stop
C26_Witness ==
    /\ started = 1 /\ stopCalls[1] = 1
    /\ clicks = MaxClicks /\ stdoutPipe = <<>>
    /\ shuttingDown /\ shutdownAwaits = 0

\* C27 (as claimed): at most one session has live recorders at any time:
\* a session's recorders are started only when those of every earlier
\* session have exited.
C27_SessionsNeverOverlap ==
    Cardinality({s \in DOMAIN stage : stage[s] \in {"recording", "stopping"}}) <= 1

\* the mic-active and mic-inactive events among those emitted, in order
IsTransition(e) == e \in {"mic-active", "mic-inactive"}
Transitions == SelectSeq(emitted, IsTransition)

\* C28: the mic-active and mic-inactive events emitted alternate, starting
\* with mic-active, and wasActive tells which came last, whatever the poll
\* results are and in whatever order overlapping polls complete; a poll that
\* fails emits error and leaves wasActive as it was.
C28_EventsAlternate ==
    /\ [](/\ \A k \in 1..Len(Transitions) :
                Transitions[k] = (IF k % 2 = 1 THEN "mic-active" ELSE "mic-inactive")
          /\ wasActive = (Len(Transitions) % 2 = 1))
    /\ [][(Len(emitted') > Len(emitted) /\ emitted'[Len(emitted')] = "error")
              => wasActive' = wasActive]_vars

\* mic-active and mic-inactive were emitted, a poll has failed, and two
\* further polls are awaiting their checks at the same time
C28_Witness ==
    /\ Len(Transitions) >= 2
    /\ \E k \in 1..Len(emitted) : emitted[k] = "error"
    /\ pendingPolls >= 2

\* C29 (as claimed): once stop() has been called no further event is
\* emitted.
C29_NoEventAfterStop ==
    emittedAtStop # -1 => Len(emitted) = emittedAtStop

\* C30 (as claimed): the two transcribe calls of a session use different
\* output paths, and each call reads and deletes only the JSON file written
\* by the engine that ran on its own WAV file.
C30_OwnOutputOnly ==
    /\ (\A c \in DOMAIN tpc : tpc[c] # "idle") =>
          outputBase["mic"] # outputBase["speaker"]
    /\ \A c \in DOMAIN tpc :
          /\ readOutput[c] \in {"none", c}
          /\ unlinked[c] \in {"none", c}

====
